---- MODULE Spec2Model ----
(***************************************************************************)
(* A model of JsonScadBuilder (src/jsonscad_builder.py): the pipeline that *)
(* turns a GeoJSON FeatureCollection into OpenSCAD code.                   *)
(*                                                                         *)
(* Numbers.  Coordinates, origins, scale factors and offsets are integers. *)
(* Property values are exact rationals <<num, den>> in lowest terms with   *)
(* den > 0, because scale_heights divides (Python's true division).  The   *)
(* rounding of binary floating point is not modelled.                      *)
(*                                                                         *)
(* Exceptions.  Every API call ends either normally (err = "none") or by   *)
(* raising; err then names the exception class.  Python's assert is taken  *)
(* as enabled (the interpreter is not run with -O).                        *)
(***************************************************************************)
EXTENDS Integers, Sequences, FiniteSets, TLC

VARIABLES
    raw_json_data,        \* self.raw_json_data: [keys, features]
    features,             \* self.features: sequence of features
    aliased,              \* self.features is the list raw_json_data['features']
    num_features,         \* self.num_features
    bound_data_key_name,  \* self.bound_data_key_name
    origin,               \* self.origin: <<>> or <<x, y>>
    scale_factor,         \* self.scale_factor
    offset_delta,         \* self.offset_delta
    is_colored,           \* self.is_colored
    file,                 \* the .scad file: [exists, code]
    op,                   \* the last API method called
    err,                  \* how that call ended: "none" or the exception raised
    calls,                \* number of API calls made so far
    pc,                   \* position of the caller's script
    hist                  \* the arguments the caller's script passed

vars ==
    <<raw_json_data, features, aliased, num_features, bound_data_key_name,
      origin, scale_factor, offset_delta, is_colored, file, op, err, calls,
      pc, hist>>

inst ==
    <<raw_json_data, features, aliased, num_features, bound_data_key_name,
      origin, scale_factor, offset_delta, is_colored>>

\* ------------------------------------------------------------------ bounds

\* API calls made on one instance in a behaviour of Spec.
MaxCalls == 4
\* Longest data list passed to bind_data.
MaxData == 5
\* Longest list of [id_value, value] pairs passed to bind_data_by_identifier.
MaxPairs == 2

\* ---------------------------------------------------------------- rationals

Abs(n) ==
    IF n < 0 THEN -n ELSE n

RECURSIVE Gcd(_, _)
Gcd(a, b) ==
    IF b = 0 THEN a ELSE Gcd(b, a % b)

\* The rational n/d (d # 0) in lowest terms with a positive denominator.
Rat(n, d) ==
    LET g == Gcd(Abs(n), Abs(d))
        s == IF d < 0 THEN -1 ELSE 1
    IN  <<(s * n) \div g, (s * d) \div g>>

Num(n) ==
    <<n, 1>>

RAdd(a, b) ==
    Rat(a[1] * b[2] + b[1] * a[2], a[2] * b[2])

RSub(a, b) ==
    Rat(a[1] * b[2] - b[1] * a[2], a[2] * b[2])

RMul(a, b) ==
    Rat(a[1] * b[1], a[2] * b[2])

\* a / b for b # 0.
RDiv(a, b) ==
    Rat(a[1] * b[2], a[2] * b[1])

\* ------------------------------------------------------- class constants

DEFAULT_EXTRUDE_HEIGHT == 2

\* DEFAULT_RDP_EPSILON = 0.01, as a rational.
DEFAULT_RDP_EPSILON ==
    <<1, 100>>

COLOR_BANK ==
    {"Red", "Green", "Blue", "Brown", "Purple", "Gold", "Orange"}

\* The names an attribute lookup self.<name> finds: the instance attributes
\* set by __init__, the class constants and the methods.
Attributes ==
    {"raw_json_data", "features", "num_features", "bound_data_key_name",
     "origin", "scale_factor", "offset_delta", "is_colored",
     "DEFAULT_EXTRUDE_HEIGHT", "DEFAULT_RDP_EPSILON", "COLOR_BANK",
     "_transform_helper", "read_json", "read_json_file", "extract_features",
     "simplify", "transform", "offset", "bind_data",
     "bind_data_by_identifier", "scale_heights", "color_preview",
     "write_scad_file"}

HasAttr(name) ==
    name \in Attributes

\* ------------------------------------------------------------- documents

\* A missing key of a properties dict.
Absent ==
    <<>>

PropKeys ==
    {"id", "pop"}

Props(id, pop) ==
    [k \in PropKeys |-> IF k = "id" THEN id ELSE pop]

RingA ==
    <<<<0, 0>>, <<2, 0>>, <<4, 0>>, <<4, 3>>, <<0, 0>>>>

HoleA ==
    <<<<1, 1>>, <<3, 1>>, <<3, 2>>, <<1, 1>>>>

RingB ==
    <<<<5, 5>>, <<7, 5>>, <<7, 8>>, <<5, 5>>>>

RingC ==
    <<<<-3, 1>>, <<-1, 1>>, <<-1, 2>>, <<-3, 1>>>>

Feature(type, coordinates, properties) ==
    [type |-> type, coordinates |-> coordinates, properties |-> properties]

\* A Polygon with an exterior ring and one hole.
PolygonA(props) ==
    Feature("Polygon", <<RingA, HoleA>>, props)

PolygonC(props) ==
    Feature("Polygon", <<RingC>>, props)

\* A MultiPolygon of two polygons, the first with a hole.
MultiBC(props) ==
    Feature("MultiPolygon", <<<<RingB, HoleA>>, <<RingC>>>>, props)

PointFeature(props) ==
    Feature("Point", <<9, 9>>, props)

Document(keys, feats) ==
    [keys |-> keys, features |-> feats]

\* OrderedDict(): the empty mapping.
EmptyDict ==
    Document({}, <<>>)

\* The input texts: a malformed one, and well-formed JSON documents.
Texts ==
    {"malformed", "no_features", "empty", "polygon", "polygon_multi", "mixed"}

IsWellFormed(text) ==
    text # "malformed"

\* json.loads / json.load of a well-formed text.
Parse(text) ==
    CASE text = "no_features" ->
           Document({"type"}, <<>>)
      [] text = "empty" ->
           Document({"type", "features"}, <<>>)
      [] text = "polygon" ->
           Document({"type", "features"}, <<PolygonA(Props(Num(1), Absent))>>)
      [] text = "polygon_multi" ->
           Document({"type", "features"},
                    <<PolygonA(Props(Num(1), Absent)),
                      MultiBC(Props(Num(2), Absent))>>)
      [] text = "mixed" ->
           Document({"type", "features"},
                    <<MultiBC(Props(Num(7), Absent)),
                      PointFeature(Props(Absent, Num(5))),
                      PolygonC(Props(Num(7), Absent))>>)
      [] OTHER ->
           EmptyDict

\* ------------------------------------------------------------------- Init

NoFile ==
    [exists |-> FALSE, code |-> <<>>]

NoHist ==
    [text |-> "", bind |-> "", key |-> "", data |-> <<>>, id_key |-> "",
     domain |-> <<0, 0>>, range |-> <<0, 0>>]

\* __init__
InitInstance ==
    /\ raw_json_data = EmptyDict
    /\ features = <<>>
    /\ aliased = FALSE
    /\ num_features = 0
    /\ bound_data_key_name = ""
    /\ origin = <<>>
    /\ scale_factor = 1
    /\ offset_delta = 0
    /\ is_colored = FALSE
    /\ file = NoFile
    /\ op = "__init__"
    /\ err = "none"
    /\ calls = 0
    /\ hist = NoHist

Init ==
    /\ InitInstance
    /\ pc = "free"

\* How a call ends: the method, its outcome, one more call made.
Ends(method, outcome) ==
    /\ op' = method
    /\ err' = outcome
    /\ calls' = calls + 1

\* An in-place mutation of the feature list is seen through every reference
\* to it: self.features and, after extract_features, raw_json_data['features'].
Mutate(feats) ==
    /\ features' = feats
    /\ raw_json_data' =
         IF aliased THEN [raw_json_data EXCEPT !.features = feats]
         ELSE raw_json_data

\* ------------------------------------------------------------ read_json

\* read_json(str): the parameter named str shadows the builtin, so the
\* status line's str(...) calls the text itself and raises TypeError after
\* raw_json_data has been assigned.
read_json(text) ==
    /\ IF IsWellFormed(text)
       THEN /\ raw_json_data' = Parse(text)
            /\ aliased' = FALSE
            /\ Ends("read_json", "TypeError")
       ELSE /\ UNCHANGED <<raw_json_data, aliased>>
            /\ Ends("read_json", "JSONDecodeError")
    /\ UNCHANGED <<features, num_features, bound_data_key_name, origin,
                   scale_factor, offset_delta, is_colored, file>>

\* read_json_file(filepath), given the text the file holds.
read_json_file(text) ==
    /\ IF IsWellFormed(text)
       THEN /\ raw_json_data' = Parse(text)
            /\ aliased' = FALSE
            /\ Ends("read_json_file", "none")
       ELSE /\ UNCHANGED <<raw_json_data, aliased>>
            /\ Ends("read_json_file", "JSONDecodeError")
    /\ UNCHANGED <<features, num_features, bound_data_key_name, origin,
                   scale_factor, offset_delta, is_colored, file>>

\* extract_features()
extract_features ==
    /\ IF raw_json_data.keys = {}
       THEN /\ UNCHANGED <<features, num_features, aliased>>
            /\ Ends("extract_features", "AssertionError")
       ELSE IF "features" \notin raw_json_data.keys
       THEN /\ UNCHANGED <<features, num_features, aliased>>
            /\ Ends("extract_features", "KeyError")
       ELSE /\ features' = raw_json_data.features
            /\ num_features' = Len(raw_json_data.features)
            /\ aliased' = TRUE
            /\ Ends("extract_features", "none")
    /\ UNCHANGED <<raw_json_data, bound_data_key_name, origin, scale_factor,
                   offset_delta, is_colored, file>>

\* ------------------------------------------------------------- simplify

\* The square of pldist(point, start, end), as the pair <<numerator,
\* denominator>>: the distance to start when start = end, else the distance
\* to the line through start and end.
PlDist2(point, start, end) ==
    IF start = end
    THEN <<(point[1] - start[1]) * (point[1] - start[1])
             + (point[2] - start[2]) * (point[2] - start[2]), 1>>
    ELSE LET cross == (end[1] - start[1]) * (start[2] - point[2])
                        - (end[2] - start[2]) * (start[1] - point[1])
         IN  <<cross * cross,
               (end[1] - start[1]) * (end[1] - start[1])
                 + (end[2] - start[2]) * (end[2] - start[2])>>

\* The interior index the scan "if d > dmax" settles on: the first one at
\* the largest distance; 1 when every interior point is at distance 0.
RECURSIVE FarthestFrom(_, _, _, _)
FarthestFrom(points, i, index, dmax) ==
    IF i >= Len(points) THEN <<index, dmax>>
    ELSE LET d == PlDist2(points[i], points[1], points[Len(points)])[1]
         IN  IF d > dmax THEN FarthestFrom(points, i + 1, i, d)
             ELSE FarthestFrom(points, i + 1, index, dmax)

\* rdp(points, epsilon): the Ramer-Douglas-Peucker reduction, epsilon a
\* rational >= 0.  dmax > epsilon is decided on the squares, as
\* dmax2 > floor(epsilon2 * den), dmax2 being an integer.
RECURSIVE rdp(_, _)
rdp(points, epsilon) ==
    IF Len(points) < 3 THEN points
    ELSE LET far == FarthestFrom(points, 2, 1, 0)
             den == PlDist2(points[2], points[1], points[Len(points)])[2]
         IN  IF far[2] > (epsilon[1] * epsilon[1] * den)
                           \div (epsilon[2] * epsilon[2])
             THEN rdp(SubSeq(points, 1, far[1]), epsilon)
                    \o Tail(rdp(SubSeq(points, far[1], Len(points)), epsilon))
             ELSE <<points[1], points[Len(points)]>>

\* The tolerances simplify is called with.
Epsilons ==
    {DEFAULT_RDP_EPSILON, <<1, 1>>}

SimplifyFeature(feature, eps) ==
    IF feature.type = "Polygon"
    THEN [feature EXCEPT !.coordinates[1] = rdp(@, eps)]
    ELSE IF feature.type = "MultiPolygon"
    THEN [feature EXCEPT !.coordinates =
            [p \in 1..Len(@) |-> [@[p] EXCEPT ![1] = rdp(@, eps)]]]
    ELSE feature

\* simplify(eps)
simplify(eps) ==
    /\ IF features = <<>>
       THEN /\ UNCHANGED <<features, raw_json_data>>
            /\ Ends("simplify", "AssertionError")
       ELSE /\ Mutate([i \in 1..Len(features) |->
                         SimplifyFeature(features[i], eps)])
            /\ Ends("simplify", "none")
    /\ UNCHANGED <<aliased, num_features, bound_data_key_name, origin,
                   scale_factor, offset_delta, is_colored, file>>

\* ------------------------------------------------------------ transform

\* A helper that scales before it translates.
ScaleThenTranslate(pair, org, sf) ==
    <<sf * pair[1] - org[1], sf * pair[2] - org[2]>>

\* _transform_helper(pair), with self.origin and self.scale_factor.
_transform_helper(pair, org, sf) ==
    <<sf * (pair[1] - org[1]), sf * (pair[2] - org[2])>>

\* list(map(self._transform_helper, coords))
MapHelper(coords, org, sf) ==
    [j \in 1..Len(coords) |-> _transform_helper(coords[j], org, sf)]

\* The loop over self.features from index i on, given the list as mutated
\* so far.  The MultiPolygon branch looks up self.transform_helper for each
\* polygon; the lookup raises AttributeError when no such attribute exists,
\* and the features transformed before it stay transformed.
RECURSIVE TransformLoop(_, _, _, _)
TransformLoop(feats, i, org, sf) ==
    IF i > Len(feats) THEN [features |-> feats, err |-> "none"]
    ELSE IF feats[i].type = "Polygon"
    THEN TransformLoop(
           [feats EXCEPT ![i].coordinates[1] = MapHelper(@, org, sf)],
           i + 1, org, sf)
    ELSE IF feats[i].type = "MultiPolygon"
    THEN IF Len(feats[i].coordinates) = 0
         THEN TransformLoop(feats, i + 1, org, sf)
         ELSE IF ~HasAttr("transform_helper")
         THEN [features |-> feats, err |-> "AttributeError"]
         ELSE TransformLoop(
                [feats EXCEPT ![i].coordinates =
                   [p \in 1..Len(@) |->
                      [@[p] EXCEPT ![1] = MapHelper(@, org, sf)]]],
                i + 1, org, sf)
    ELSE TransformLoop(feats, i + 1, org, sf)

\* The arguments transform is called with.
Origins ==
    {<<0, 0>>, <<1, 2>>}

ScaleFactors ==
    {1, 2}

\* transform(origin, scale_factor): the two attributes are assigned before
\* the assert on self.features.
transform(org, sf) ==
    /\ origin' = org
    /\ scale_factor' = sf
    /\ IF features = <<>>
       THEN /\ UNCHANGED <<features, raw_json_data>>
            /\ Ends("transform", "AssertionError")
       ELSE LET r == TransformLoop(features, 1, org, sf)
            IN  /\ Mutate(r.features)
                /\ Ends("transform", r.err)
    /\ UNCHANGED <<aliased, num_features, bound_data_key_name, offset_delta,
                   is_colored, file>>

\* --------------------------------------------------------------- offset

Deltas ==
    {0, 1}

\* offset(delta)
offset(delta) ==
    /\ offset_delta' = delta
    /\ Ends("offset", "none")
    /\ UNCHANGED <<raw_json_data, features, aliased, num_features,
                   bound_data_key_name, origin, scale_factor, is_colored,
                   file>>

\* -------------------------------------------------------- color_preview

\* color_preview()
color_preview ==
    /\ is_colored' = TRUE
    /\ Ends("color_preview", "none")
    /\ UNCHANGED <<raw_json_data, features, aliased, num_features,
                   bound_data_key_name, origin, scale_factor, offset_delta,
                   file>>

\* ------------------------------------------------------------ bind_data

\* A zip that stops one pair early.
BindZipShort(feats, data_key_name, data) ==
    [i \in 1..Len(feats) |->
       IF i < Len(data)
       THEN [feats[i] EXCEPT !.properties[data_key_name] = data[i]]
       ELSE feats[i]]

\* for feature, datum in zip(self.features, data):
\*     feature['properties'][data_key_name] = datum
BindZip(feats, data_key_name, data) ==
    [i \in 1..Len(feats) |->
       IF i <= Len(data)
       THEN [feats[i] EXCEPT !.properties[data_key_name] = data[i]]
       ELSE feats[i]]

\* bind_data(data_key_name, data): the key name is assigned before the
\* assert on self.features.
bind_data(data_key_name, data) ==
    /\ bound_data_key_name' = data_key_name
    /\ IF features = <<>>
       THEN /\ UNCHANGED <<features, raw_json_data>>
            /\ Ends("bind_data", "AssertionError")
       ELSE /\ Mutate(BindZip(features, data_key_name, data))
            /\ Ends("bind_data", "none")
    /\ UNCHANGED <<aliased, num_features, origin, scale_factor, offset_delta,
                   is_colored, file>>

\* ---------------------------------------------- bind_data_by_identifier

\* An inner loop without the break: every matching feature gets the value.
RECURSIVE SearchLoopNoBreak(_, _, _, _, _)
SearchLoopNoBreak(feats, j, data_key_name, datum, id_key) ==
    IF j > Len(feats) THEN feats
    ELSE IF /\ feats[j].properties[id_key] # Absent
            /\ feats[j].properties[id_key] = datum[1]
    THEN SearchLoopNoBreak(
           [feats EXCEPT ![j].properties[data_key_name] = datum[2]],
           j + 1, data_key_name, datum, id_key)
    ELSE SearchLoopNoBreak(feats, j + 1, data_key_name, datum, id_key)

\* The inner loop "for feature in self.features" from index j on, for one
\* datum [id_value, value]: the first feature that has id_key with the
\* datum's id_value gets the value, and the loop breaks.
RECURSIVE SearchLoop(_, _, _, _, _)
SearchLoop(feats, j, data_key_name, datum, id_key) ==
    IF j > Len(feats) THEN feats
    ELSE IF /\ feats[j].properties[id_key] # Absent
            /\ feats[j].properties[id_key] = datum[1]
    THEN [feats EXCEPT ![j].properties[data_key_name] = datum[2]]
    ELSE SearchLoop(feats, j + 1, data_key_name, datum, id_key)

\* The outer loop "for datum in data" from index d on.
RECURSIVE DataLoop(_, _, _, _, _)
DataLoop(feats, d, data_key_name, data, id_key) ==
    IF d > Len(data) THEN feats
    ELSE DataLoop(SearchLoop(feats, 1, data_key_name, data[d], id_key),
                  d + 1, data_key_name, data, id_key)

\* bind_data_by_identifier(data_key_name, data, id_key): the key name is
\* assigned before the assert on self.features.
bind_data_by_identifier(data_key_name, data, id_key) ==
    /\ bound_data_key_name' = data_key_name
    /\ IF features = <<>>
       THEN /\ UNCHANGED <<features, raw_json_data>>
            /\ Ends("bind_data_by_identifier", "AssertionError")
       ELSE /\ Mutate(DataLoop(features, 1, data_key_name, data, id_key))
            /\ Ends("bind_data_by_identifier", "none")
    /\ UNCHANGED <<aliased, num_features, origin, scale_factor, offset_delta,
                   is_colored, file>>

\* -------------------------------------------------------- scale_heights

\* A scaling that leaves out the base of the range.
ScaledHeightNoBase(value, domain, range) ==
    RMul(RDiv(RSub(value, Num(domain[1])), Num(domain[2] - domain[1])),
         Num(range[2] - range[1]))

\* scaled_height = range[0] + (value - domain[0]) / domain_diff * range_diff
\* for domain_diff # 0.
ScaledHeight(value, domain, range) ==
    LET domain_diff == domain[2] - domain[1]
        range_diff == range[2] - range[1]
        scaling_ratio == RDiv(RSub(value, Num(domain[1])), Num(domain_diff))
    IN  RAdd(Num(range[1]), RMul(scaling_ratio, Num(range_diff)))

\* The loop over self.features from index i on.  The division raises
\* ZeroDivisionError at the first feature that carries the bound key when
\* domain_diff is 0.
RECURSIVE ScaleLoop(_, _, _, _, _)
ScaleLoop(feats, i, key, domain, range) ==
    IF i > Len(feats) THEN [features |-> feats, err |-> "none"]
    ELSE IF feats[i].properties[key] = Absent
    THEN ScaleLoop(feats, i + 1, key, domain, range)
    ELSE IF domain[2] - domain[1] = 0
    THEN [features |-> feats, err |-> "ZeroDivisionError"]
    ELSE ScaleLoop(
           [feats EXCEPT ![i].properties[key] =
              ScaledHeight(@, domain, range)],
           i + 1, key, domain, range)

\* scale_heights(domain, range)
scale_heights(domain, range) ==
    /\ IF features = <<>> \/ bound_data_key_name = ""
       THEN /\ UNCHANGED <<features, raw_json_data>>
            /\ Ends("scale_heights", "AssertionError")
       ELSE LET r == ScaleLoop(features, 1, bound_data_key_name, domain, range)
            IN  /\ Mutate(r.features)
                /\ Ends("scale_heights", r.err)
    /\ UNCHANGED <<aliased, num_features, bound_data_key_name, origin,
                   scale_factor, offset_delta, is_colored, file>>

\* ------------------------------------------------------ write_scad_file

\* The statements of the generated code, in the order they are appended.
PointsStmt(count, ring) ==
    [stmt |-> "points", name |-> count, value |-> ring]

ColorStmt(color) ==
    [stmt |-> "color", name |-> color]

ExtrudeStmt(height) ==
    [stmt |-> "linear_extrude", height |-> height]

OffsetStmt(delta) ==
    [stmt |-> "offset", delta |-> delta]

PolygonStmt(count) ==
    [stmt |-> "polygon", points |-> count]

\* The height of a feature's linear_extrude statement.
ExtrudeHeight(feature, key) ==
    IF key # "" /\ feature.properties[key] # Absent
    THEN feature.properties[key]
    ELSE Num(DEFAULT_EXTRUDE_HEIGHT)

\* The statements appended for one exterior ring, numbered count; color is
\* what choice() returned, when color preview mode is on.
Block(feature, ring, count, key, delta, colored, color) ==
    <<PointsStmt(count, ring)>>
      \o (IF colored THEN <<ColorStmt(color)>> ELSE <<>>)
      \o <<ExtrudeStmt(ExtrudeHeight(feature, key))>>
      \o (IF delta # 0 THEN <<OffsetStmt(delta)>> ELSE <<>>)
      \o <<PolygonStmt(count)>>

\* The number of exterior rings write_scad_file walks.
RECURSIVE NumShapes(_, _)
NumShapes(feats, i) ==
    IF i > Len(feats) THEN 0
    ELSE (IF feats[i].type = "Polygon" THEN 1
          ELSE IF feats[i].type = "MultiPolygon"
          THEN Len(feats[i].coordinates)
          ELSE 0) + NumShapes(feats, i + 1)

\* The loop over the polygons of a MultiPolygon from index p on.
RECURSIVE WritePolygons(_, _, _, _, _, _, _, _)
WritePolygons(feature, p, count, code, key, delta, colored, draws) ==
    IF p > Len(feature.coordinates)
    THEN [count |-> count, code |-> code, err |-> "none"]
    ELSE IF colored /\ ~HasAttr("color_bank")
    THEN [count |-> count, code |-> code, err |-> "AttributeError"]
    ELSE WritePolygons(
           feature, p + 1, count + 1,
           code \o Block(feature, feature.coordinates[p][1], count, key,
                         delta, colored, draws[count + 1]),
           key, delta, colored, draws)

\* The loop over self.features from index i on.  In color preview mode each
\* ring looks up self.color_bank, which raises AttributeError when no such
\* attribute exists; draws are the colors choice() returns otherwise.
RECURSIVE WriteLoop(_, _, _, _, _, _, _, _)
WriteLoop(feats, i, count, code, key, delta, colored, draws) ==
    IF i > Len(feats) THEN [code |-> code, err |-> "none"]
    ELSE IF feats[i].type = "Polygon"
    THEN IF colored /\ ~HasAttr("color_bank")
         THEN [code |-> code, err |-> "AttributeError"]
         ELSE WriteLoop(
                feats, i + 1, count + 1,
                code \o Block(feats[i], feats[i].coordinates[1], count, key,
                              delta, colored, draws[count + 1]),
                key, delta, colored, draws)
    ELSE IF feats[i].type = "MultiPolygon"
    THEN LET r == WritePolygons(feats[i], 1, count, code, key, delta,
                                colored, draws)
         IN  IF r.err # "none" THEN [code |-> r.code, err |-> r.err]
             ELSE WriteLoop(feats, i + 1, r.count, r.code, key, delta,
                            colored, draws)
    ELSE WriteLoop(feats, i + 1, count, code, key, delta, colored, draws)

\* What the calls of choice() can return during one write_scad_file.
Draws ==
    IF is_colored /\ HasAttr("color_bank")
    THEN [1..NumShapes(features, 1) -> COLOR_BANK]
    ELSE {[n \in 1..NumShapes(features, 1) |-> "none"]}

\* write_scad_file(filepath): the file is opened and written only after the
\* whole code has been generated.
write_scad_file ==
    /\ IF features = <<>>
       THEN /\ UNCHANGED file
            /\ Ends("write_scad_file", "AssertionError")
       ELSE \E draws \in Draws :
              LET r == WriteLoop(features, 1, 0, <<>>, bound_data_key_name,
                                 offset_delta, is_colored, draws)
              IN  /\ file' = IF r.err = "none"
                             THEN [exists |-> TRUE, code |-> r.code]
                             ELSE file
                  /\ Ends("write_scad_file", r.err)
    /\ UNCHANGED inst

\* ------------------------------------------------- the caller's inputs

\* The key names bind_data and bind_data_by_identifier are called with.
KeyNames ==
    {"pop", "id"}

\* The data values, in the order of the lists passed to bind_data.
DataValue(i) ==
    Num(CASE i % 5 = 1 -> 10
          [] i % 5 = 2 -> 20
          [] i % 5 = 3 -> 5
          [] i % 5 = 4 -> 0
          [] OTHER -> 15)

DataLists ==
    {[i \in 1..n |-> DataValue(i)] : n \in 0..MaxData}

\* The [id_value, value] pairs passed to bind_data_by_identifier.
Pairs ==
    {<<Num(1), Num(10)>>, <<Num(7), Num(20)>>, <<Num(10), Num(7)>>}

PairLists ==
    UNION {[1..n -> Pairs] : n \in 0..MaxPairs}

Domains ==
    {<<10, 20>>, <<0, 10>>, <<5, 5>>}

Ranges ==
    {<<1, 5>>, <<2, 20>>}

\* ------------------------------------------------------------------ Spec

\* Any call of the API, in any order, on one instance.
Free ==
    /\ pc = "free"
    /\ calls < MaxCalls
    /\ UNCHANGED <<pc, hist>>

ReadJson ==
    \E text \in Texts : Free /\ read_json(text)

ReadJsonFile ==
    \E text \in Texts : Free /\ read_json_file(text)

ExtractFeatures ==
    Free /\ extract_features

Simplify ==
    \E eps \in Epsilons : Free /\ simplify(eps)

Transform ==
    \E org \in Origins, sf \in ScaleFactors : Free /\ transform(org, sf)

Offset ==
    \E delta \in Deltas : Free /\ offset(delta)

BindData ==
    \E key \in KeyNames, data \in DataLists : Free /\ bind_data(key, data)

BindDataByIdentifier ==
    \E key \in KeyNames, data \in PairLists, id_key \in PropKeys :
      Free /\ bind_data_by_identifier(key, data, id_key)

ScaleHeights ==
    \E domain \in Domains, range \in Ranges :
      Free /\ scale_heights(domain, range)

ColorPreview ==
    Free /\ color_preview

WriteScadFile ==
    Free /\ write_scad_file

Next ==
    \/ ReadJson
    \/ ReadJsonFile
    \/ ExtractFeatures
    \/ Simplify
    \/ Transform
    \/ Offset
    \/ BindData
    \/ BindDataByIdentifier
    \/ ScaleHeights
    \/ ColorPreview
    \/ WriteScadFile

Spec ==
    Init /\ [][Next]_vars

\* ---------------------------------------------------------- SpecPipeline

\* The caller's script of the end-to-end scenario: load a document, then
\* extract_features, one of the two bind methods, scale_heights and
\* write_scad_file, each once and in this order, on a fresh instance.  The
\* script stops at the first call that raises, except that it goes on after
\* read_json has stored the document.  hist keeps the arguments passed.
InitPipeline ==
    /\ InitInstance
    /\ pc = "new"

Then(next) ==
    pc' = IF err' = "none" THEN next ELSE "aborted"

PipeReadJson ==
    \E text \in Texts :
      /\ pc = "new"
      /\ read_json(text)
      /\ pc' = IF IsWellFormed(text) THEN "read" ELSE "aborted"
      /\ hist' = [hist EXCEPT !.text = text]

PipeReadJsonFile ==
    \E text \in Texts :
      /\ pc = "new"
      /\ read_json_file(text)
      /\ Then("read")
      /\ hist' = [hist EXCEPT !.text = text]

PipeExtractFeatures ==
    /\ pc = "read"
    /\ extract_features
    /\ Then("extracted")
    /\ UNCHANGED hist

PipeBindData ==
    \E key \in KeyNames, data \in DataLists :
      /\ pc = "extracted"
      /\ bind_data(key, data)
      /\ Then("bound")
      /\ hist' = [hist EXCEPT !.bind = "bind_data", !.key = key,
                              !.data = data]

PipeBindDataByIdentifier ==
    \E key \in KeyNames, data \in PairLists, id_key \in PropKeys :
      /\ pc = "extracted"
      /\ bind_data_by_identifier(key, data, id_key)
      /\ Then("bound")
      /\ hist' = [hist EXCEPT !.bind = "bind_data_by_identifier",
                              !.key = key, !.data = data, !.id_key = id_key]

PipeScaleHeights ==
    \E domain \in Domains, range \in Ranges :
      /\ pc = "bound"
      /\ scale_heights(domain, range)
      /\ Then("scaled")
      /\ hist' = [hist EXCEPT !.domain = domain, !.range = range]

PipeWriteScadFile ==
    /\ pc = "scaled"
    /\ write_scad_file
    /\ Then("written")
    /\ UNCHANGED hist

NextPipeline ==
    \/ PipeReadJson
    \/ PipeReadJsonFile
    \/ PipeExtractFeatures
    \/ PipeBindData
    \/ PipeBindDataByIdentifier
    \/ PipeScaleHeights
    \/ PipeWriteScadFile

SpecPipeline ==
    InitPipeline /\ [][NextPipeline]_vars

\* ============================================================== properties

IsShape(feature) ==
    feature.type \in {"Polygon", "MultiPolygon"}

\* The exterior rings of a feature, in sub-polygon order.
Rings(feature) ==
    IF feature.type = "Polygon" THEN <<feature.coordinates[1]>>
    ELSE IF feature.type = "MultiPolygon"
    THEN [p \in 1..Len(feature.coordinates) |-> feature.coordinates[p][1]]
    ELSE <<>>

\* The first feature at which transform cannot go on (a MultiPolygon with at
\* least one polygon), or Len(feats) + 1.
FirstMulti(feats) ==
    LET S == {i \in 1..Len(feats) :
                feats[i].type = "MultiPolygon" /\ Rings(feats[i]) # <<>>}
    IN  IF S = {} THEN Len(feats) + 1
        ELSE CHOOSE i \in S : \A j \in S : i <= j

\* The image of a ring under translation by -org, then scaling by sf, then
\* adding seam to both coordinates.
Image(ring, org, sf, seam) ==
    [j \in 1..Len(ring) |->
       <<sf * ring[j][1] - sf * org[1] + seam,
         sf * ring[j][2] - sf * org[2] + seam>>]

ImageRings(rings, org, sf, seam) ==
    [p \in 1..Len(rings) |-> Image(rings[p], org, sf, seam)]

\* C1 as stated: a transform(org, sf) on a non-empty feature list maps ring
\* 0 of every Polygon and of every polygon of every MultiPolygon to its
\* image under translation, scaling and the addition of the seam offset
\* (offset_delta).
C1_TransformAddsSeamOffset ==
    [][\A org \in Origins, sf \in ScaleFactors :
         (transform(org, sf) /\ features # <<>>)
           => \A i \in 1..Len(features) :
                Rings(features'[i])
                  = ImageRings(Rings(features[i]), org, sf, offset_delta)]_vars

\* C1 amended: transform(org, sf) on a non-empty feature list maps ring 0 of
\* every Polygon it gets to onto its image under translation then scaling,
\* adding no seam offset; it raises at the first MultiPolygon that has a
\* polygon, and leaves that feature, every later feature, every interior
\* ring, every property and offset_delta as they were.
C1_TransformTranslatesThenScales ==
    [][\A org \in Origins, sf \in ScaleFactors :
         (/\ op' = "transform"
          /\ features # <<>>
          /\ transform(org, sf))
           => LET stop == FirstMulti(features)
              IN  /\ Len(features') = Len(features)
                  /\ err' = IF stop > Len(features) THEN "none"
                            ELSE "AttributeError"
                  /\ offset_delta' = offset_delta
                  /\ origin' = org /\ scale_factor' = sf
                  /\ \A i \in 1..Len(features) :
                       IF i < stop /\ features[i].type = "Polygon"
                       THEN /\ Rings(features'[i])
                                 = ImageRings(Rings(features[i]), org, sf, 0)
                            /\ Tail(features'[i].coordinates)
                                 = Tail(features[i].coordinates)
                            /\ features'[i].properties
                                 = features[i].properties
                            /\ features'[i].type = "Polygon"
                       ELSE features'[i] = features[i]]_vars

\* A transform that moved and scaled a Polygon's exterior ring while the
\* offset was 1: (2, 0) went to (2 * (2 - 1), 2 * (0 - 2)).
C1_Witness ==
    /\ op = "transform"
    /\ err = "none"
    /\ origin = <<1, 2>>
    /\ scale_factor = 2
    /\ offset_delta = 1
    /\ Len(features) = 1
    /\ features[1].type = "Polygon"
    /\ features[1].coordinates[1][2] = <<2, -4>>

\* C2 as stated: transform(<<0, 0>>, 1) while the offset is 0, on a
\* non-empty list of Polygon and MultiPolygon features, ends without an
\* error and leaves every coordinate of every feature unchanged.
C2_IdentityTransformCompletes ==
    [][(/\ transform(<<0, 0>>, 1)
        /\ offset_delta = 0
        /\ features # <<>>
        /\ \A i \in 1..Len(features) : IsShape(features[i]))
         => /\ err' = "none"
            /\ features' = features]_vars

\* The fields of the pipeline instance C3 names.
Fields ==
    <<features, num_features, bound_data_key_name, origin, scale_factor,
      offset_delta, is_colored>>

\* C3 as stated: a call of simplify, transform, bind_data,
\* bind_data_by_identifier, scale_heights or write_scad_file made while the
\* feature list is empty fails and leaves every field as it was.
C3_FailedCallChangesNothing ==
    [][(/\ features = <<>>
        /\ calls' = calls + 1
        /\ op' \in {"simplify", "transform", "bind_data",
                     "bind_data_by_identifier", "scale_heights",
                     "write_scad_file"})
         => /\ err' # "none"
            /\ Fields' = Fields]_vars

\* C4 as stated: scale_heights with domain[0] = domain[1], on a non-empty
\* feature list with a bound key set, ends with an error and overwrites no
\* feature's bound value, whether or not a feature carries the key.
C4_ZeroWidthDomainAlwaysFails ==
    [][\A domain \in Domains, range \in Ranges :
         (/\ scale_heights(domain, range)
          /\ domain[1] = domain[2]
          /\ features # <<>>
          /\ bound_data_key_name # "")
           => /\ err' # "none"
              /\ features' = features]_vars

\* What one call of write_scad_file emitted: the code it wrote, nothing
\* when it raised.
Emitted ==
    IF err = "none" THEN file.code ELSE <<>>

\* The statements of a code at which a block starts.
Starts(code) ==
    {n \in 1..Len(code) : code[n].stmt = "points"}

\* The block that starts at statement n: up to the next start or the end.
BlockAt(code, n) ==
    LET later == {m \in Starts(code) : m > n}
        end == IF later = {} THEN Len(code)
               ELSE (CHOOSE m \in later : \A k \in later : m <= k) - 1
    IN  SubSeq(code, n, end)

\* The blocks of a code, in order.
Blocks(code) ==
    LET starts == Starts(code)
        nth(k) == CHOOSE n \in starts :
                    Cardinality({m \in starts : m < n}) = k - 1
    IN  [k \in 1..Cardinality(starts) |-> BlockAt(code, nth(k))]

\* All exterior rings of a feature list, in feature then sub-polygon order.
RECURSIVE AllRings(_, _)
AllRings(feats, i) ==
    IF i > Len(feats) THEN <<>>
    ELSE Rings(feats[i]) \o AllRings(feats, i + 1)

\* C5 as stated: one call of write_scad_file emits one block per exterior
\* ring, in feature order then sub-polygon order, and block k (from 0)
\* defines and references points_k.
C5_OneBlockPerShape ==
    op = "write_scad_file"
      => LET blocks == Blocks(Emitted)
             rings == AllRings(features, 1)
         IN  /\ Len(blocks) = Len(rings)
             /\ \A k \in 1..Len(blocks) :
                  /\ blocks[k][1].name = k - 1
                  /\ blocks[k][1].value = rings[k]
                  /\ blocks[k][Len(blocks[k])].stmt = "polygon"
                  /\ blocks[k][Len(blocks[k])].points = k - 1

\* The kinds of statement of a block, in order.
Shape(block) ==
    [n \in 1..Len(block) |-> block[n].stmt]

\* C7 as stated: a write_scad_file on a non-empty feature list ends without
\* an error, also in color preview mode, and emits one block per exterior
\* ring, each made of a point list, a color directive exactly when color
\* preview mode is on (naming a color of COLOR_BANK), an extrusion, an
\* offset directive exactly when offset_delta is not 0, and a polygon.
C7_BlockStructure ==
    (op = "write_scad_file" /\ features # <<>>)
      => /\ err = "none"
         /\ Len(Blocks(Emitted)) = Len(AllRings(features, 1))
         /\ \A k \in 1..Len(Blocks(Emitted)) :
              LET block == Blocks(Emitted)[k]
              IN  /\ Shape(block)
                       = <<"points">>
                           \o (IF is_colored THEN <<"color">> ELSE <<>>)
                           \o <<"linear_extrude">>
                           \o (IF offset_delta # 0 THEN <<"offset">>
                               ELSE <<>>)
                           \o <<"polygon">>
                  /\ is_colored => block[2].name \in COLOR_BANK

\* C8 as stated: read_json of a well-formed text ends without raising and
\* stores the parsed document.
C8_ReadJsonCompletes ==
    [][\A text \in Texts :
         (read_json(text) /\ IsWellFormed(text))
           => /\ err' = "none"
              /\ raw_json_data' = Parse(text)]_vars

Min(a, b) ==
    IF a < b THEN a ELSE b

\* C9: bind_data(key, data) on n > 0 features and m values ends without an
\* error, sets the active bound key to key, gives feature i the i-th value
\* under key for every i up to min(n, m) and changes nothing else of it,
\* and changes no feature after min(n, m).
C9_BindDataByPosition ==
    [][\A key \in KeyNames, data \in DataLists :
         (/\ op' = "bind_data"
          /\ features # <<>>
          /\ bind_data(key, data))
           => /\ err' = "none"
              /\ bound_data_key_name' = key
              /\ Len(features') = Len(features)
              /\ \A i \in 1..Len(features) :
                   IF i <= Min(Len(features), Len(data))
                   THEN /\ features'[i].properties[key] = data[i]
                        /\ \A k \in PropKeys \ {key} :
                             features'[i].properties[k]
                               = features[i].properties[k]
                        /\ features'[i].type = features[i].type
                        /\ features'[i].coordinates
                             = features[i].coordinates
                   ELSE features'[i] = features[i]]_vars

\* Three features bound to a list of one value (k - 2 values): the first
\* carries the value, the last two are as the document has them.
C9_Witness ==
    /\ op = "bind_data"
    /\ err = "none"
    /\ bound_data_key_name = "pop"
    /\ Len(features) = 3
    /\ features[1].properties["pop"] = Num(10)
    /\ features[2].properties["pop"] = Num(5)
    /\ features[3].properties["pop"] = Absent

\* The first feature, in sequence order, whose id_key value is id_value;
\* 0 when there is none.
FirstMatch(feats, id_key, id_value) ==
    LET S == {j \in 1..Len(feats) :
                /\ feats[j].properties[id_key] # Absent
                /\ feats[j].properties[id_key] = id_value}
    IN  IF S = {} THEN 0 ELSE CHOOSE j \in S : \A k \in S : j <= k

\* The feature list after the first n pairs have been bound one after the
\* other, each to its first match and to no other feature.
RECURSIVE AfterPairs(_, _, _, _, _)
AfterPairs(feats, key, pairs, id_key, n) ==
    IF n = 0 THEN feats
    ELSE LET before == AfterPairs(feats, key, pairs, id_key, n - 1)
             m == FirstMatch(before, id_key, pairs[n][1])
         IN  [j \in 1..Len(before) |->
                IF j = m
                THEN [before[j] EXCEPT !.properties[key] = pairs[n][2]]
                ELSE before[j]]

\* C10: bind_data_by_identifier(key, pairs, id_key) on a non-empty feature
\* list ends without an error, sets the active bound key to key, and binds
\* each pair in turn to the first feature whose id_key value is the pair's
\* id value and to no other feature; when key is not id_key, a feature that
\* is the first match of no pair is unchanged and one that is gets the
\* value of the last such pair; pairs that match nothing change nothing.
C10_BindByIdentifier ==
    [][(/\ op' = "bind_data_by_identifier"
        /\ calls' = calls + 1
        /\ features # <<>>)
         => LET key == hist'.key
                pairs == hist'.data
                id_key == hist'.id_key
            IN  /\ err' = "none"
                /\ bound_data_key_name' = key
                /\ features' = AfterPairs(features, key, pairs, id_key,
                                          Len(pairs))
                /\ key # id_key =>
                     \A j \in 1..Len(features) :
                       LET mine ==
                             {n \in 1..Len(pairs) :
                                FirstMatch(features, id_key, pairs[n][1])
                                  = j}
                       IN  IF mine = {} THEN features'[j] = features[j]
                           ELSE features'[j] =
                                  [features[j] EXCEPT !.properties[key] =
                                     pairs[CHOOSE n \in mine :
                                             \A k \in mine : k <= n][2]]
                /\ (\A n \in 1..Len(pairs) :
                      FirstMatch(features, id_key, pairs[n][1]) = 0)
                     => features' = features]_vars

\* Two features share the id 7: the pair [7, 20] was bound to the first of
\* them and not to the second.
C10_Witness ==
    /\ op = "bind_data_by_identifier"
    /\ err = "none"
    /\ hist.data = <<<<Num(7), Num(20)>>>>
    /\ hist.id_key = "id"
    /\ bound_data_key_name = "pop"
    /\ Len(features) = 3
    /\ features[1].properties["id"] = Num(7)
    /\ features[3].properties["id"] = Num(7)
    /\ features[1].properties["pop"] = Num(20)
    /\ features[3].properties["pop"] = Absent

\* The heights of the linear_extrude statements of a code, in order.
Heights(code) ==
    LET extrudes == SelectSeq(code, LAMBDA st : st.stmt = "linear_extrude")
    IN  [n \in 1..Len(extrudes) |-> extrudes[n].height]

\* range[0] + (v - domain[0]) / (domain[1] - domain[0]) * (range[1] -
\* range[0]) for v = a / b, as one fraction.
LinearMap(v, domain, range) ==
    Rat(range[1] * v[2] * (domain[2] - domain[1])
          + (v[1] - domain[1] * v[2]) * (range[2] - range[1]),
        v[2] * (domain[2] - domain[1]))

\* The heights the scenario is to emit for the features of the document
\* from index i on: per exterior ring of a feature, the image of the value
\* bound to the feature (the i-th of the data, or else the one the document
\* gives it under the key), and 2 for a feature that has no value.
RECURSIVE ScenarioHeights(_, _, _, _, _, _)
ScenarioHeights(doc, i, key, data, domain, range) ==
    IF i > Len(doc) THEN <<>>
    ELSE LET v == IF i <= Len(data) THEN data[i]
                  ELSE doc[i].properties[key]
             h == IF v = Absent THEN <<2, 1>>
                  ELSE LinearMap(v, domain, range)
         IN  [p \in 1..Len(Rings(doc[i])) |-> h]
               \o ScenarioHeights(doc, i + 1, key, data, domain, range)

\* C6: when extract_features, bind_data(key, data), scale_heights(domain,
\* range) and write_scad_file have run in this order, the bound key is key
\* and the emitted heights
\* are, per exterior ring in feature order, the linear image of the value
\* bound to the ring's feature, or 2 when it has none; a Polygon and a
\* two-part MultiPolygon bound to [10, 20] with domain [10, 20] and range
\* [1, 5] give 1, 5, 5.
C6_PipelineHeights ==
    (pc = "written" /\ hist.bind = "bind_data")
      => /\ file.exists
         /\ bound_data_key_name = hist.key
         /\ Heights(file.code)
              = ScenarioHeights(Parse(hist.text).features, 1, hist.key,
                                hist.data, hist.domain, hist.range)
         /\ (/\ hist.text = "polygon_multi"
             /\ hist.data = <<Num(10), Num(20)>>
             /\ hist.domain = <<10, 20>>
             /\ hist.range = <<1, 5>>)
              => Heights(file.code) = <<Num(1), Num(5), Num(5)>>

\* The scenario ran on three features with one value bound and a second
\* value given by the document: the MultiPolygon's two blocks carry the
\* image of 10 under [0, 10] -> [2, 20], the last feature the default 2.
C6_Witness ==
    /\ pc = "written"
    /\ hist.bind = "bind_data"
    /\ hist.text = "mixed"
    /\ hist.data = <<Num(10)>>
    /\ hist.key = "pop"
    /\ hist.domain = <<0, 10>>
    /\ hist.range = <<2, 20>>
    /\ Heights(file.code) = <<Num(20), Num(20), Num(2)>>

====
